---- MODULE Spec2Model ----
(***************************************************************************)
(* A model of support-ai's two independent components:                     *)
(*   - DSUpdater (lib/datasources/ds_updater.py): the initial load of the  *)
(*     vector store and the refresh pass a threading.Timer is meant to     *)
(*     run;                                                                *)
(*   - docs_refine and docs_map_reduce (support_ai/lib/utils/              *)
(*     docs_chain.py): the two document aggregation chains.                *)
(* Spec is the DSUpdater, RefineSpec is docs_refine, MapReduceSpec is      *)
(* docs_map_reduce.  A component that a specification does not run keeps   *)
(* its idle state.                                                         *)
(***************************************************************************)
EXTENDS Integers, Sequences, FiniteSets, TLC

VARIABLES
    \* ---- DSUpdater ----
    datasources,  \* self.datasources: the registered (name, datasource) pairs, in dict order
    passes,       \* the calls of initialize_data / _update_data, in the order they began
    timers,       \* the threading.Timer objects constructed so far
    clock,        \* datetime.now(), in seconds
    updates,      \* the vector_store.update(ds_type, data) calls made so far, in order
    \* ---- docs_refine ----
    rdocs,        \* docs
    rpc,          \* where docs_refine is: "idle", "initial", "loop", "returned", "raised"
    ridx,         \* the index (1-based) of the next document of docs[1:]
    context,      \* the local variable context
    rcalls,       \* the model invocations made so far, in order
    rerror,       \* the exception docs_refine raised, or NoError
    rtrace,       \* the 'refine loop' chain group: "none", "open", "ended", "errored"
    \* ---- docs_map_reduce ----
    mdocs,        \* docs
    tokens,       \* llm.get_num_tokens, per document content
    cap,          \* config["max_concurrency"]
    mpc,          \* where docs_map_reduce is
    task,         \* the map call of each input document: its state in the executor
    mapCalls,     \* how many times map_chain invoked the model for each input document
    mapped,       \* the output of map_as_doc_chain.map(): one Document per input
    collected,    \* how many results the batch has taken from the executor, in order
    cur,          \* collapse's local variable docs
    groups,       \* split_docs of the collapse pass under way
    gidx,         \* the group the list comprehension of collapse is at
    newdocs,      \* the documents the list comprehension has built so far
    nCollapse,    \* the number of collapse_chain model invocations
    nReduce,      \* the number of reduce_chain model invocations
    reduceInput,  \* the document list reduce_chain was invoked with
    mresult,      \* the value docs_map_reduce returned
    merror,       \* the exception docs_map_reduce raised, or NoError
    failedIn      \* the phase whose model invocation failed ("none" if no one did)

dsVars == <<datasources, passes, timers, clock, updates>>
refineVars == <<rdocs, rpc, ridx, context, rcalls, rerror, rtrace>>
mrVars == <<mdocs, tokens, cap, mpc, task, mapCalls, mapped, collected, cur, groups,
            gidx, newdocs, nCollapse, nReduce, reduceInput, mresult, merror, failedIn>>
vars == <<dsVars, refineVars, mrVars>>

\* ------------------------------------------------------------------ bounds
MaxDs == 2        \* at most this many registered datasources
MaxRecs == 2      \* at most this many records yielded by one datasource call
MaxTicks == 2     \* the clock advances at most this many timer intervals
MaxDocs == 3      \* at most this many input documents
MaxCollapse == 4  \* at most this many collapse_chain invocations in one run

\* ------------------------------------------------------------- shared values
None == "None"
NoError == "NoError"

RECURSIVE SeqsUpTo(_, _)
\* The sequences over S of length 0..n.
SeqsUpTo(S, n) ==
    IF n = 0 THEN {<<>>}
    ELSE LET shorter == SeqsUpTo(S, n - 1)
         IN  shorter \cup {Append(s, x) : s \in {t \in shorter : Len(t) = n - 1}, x \in S}

\* ================================================================ DSUpdater

\* TIMER_INTERVAL = 24*60*60
TIMER_INTERVAL == 24 * 60 * 60
\* timedelta(1): one day, in seconds
ONE_DAY == 24 * 60 * 60

\* The ds_type key of the i-th registered pair.
DsName(i) == <<"ds", i>>

\* The opaque Data records one datasource call yields: n of them, in order.
\* (Two datasources yield equal records; only the ds_type tells them apart.)
Records(kind, n) == [k \in 1..n |-> <<kind, k>>]

\* The datasources dict: name, what get_initial_data() yields and what
\* get_update_data(start, end) yields (deterministic snapshots).
DatasourceSets ==
    {ds \in SeqsUpTo([name : {DsName(i) : i \in 1..MaxDs},
                      initial : {Records("initial", n) : n \in 0..MaxRecs},
                      update : {Records("update", n) : n \in 0..MaxRecs}], MaxDs) :
        \A i \in 1..Len(ds) : ds[i].name = DsName(i)}

\* A call of initialize_data ("initial") or _update_data ("update"): the
\* position of its two nested for loops, the window _update_data computed,
\* and how it ended.
NewPass(kind, now) ==
    [kind |-> kind,
     ds |-> 1,            \* index into self.datasources.items()
     rec |-> 1,           \* index of the next record of the inner generator
     start_time |-> IF kind = "update" THEN now ELSE 0,
     end_time |-> IF kind = "update" THEN now + ONE_DAY ELSE 0,
     status |-> "running",  \* "running", "returned", "raised"
     error |-> NoError,
     made |-> 0]          \* vector_store.update calls this pass has made

\* The records the inner for loop of pass p iterates over.
PassData(p) ==
    IF passes[p].kind = "initial" THEN datasources[passes[p].ds].initial
    ELSE datasources[passes[p].ds].update

Running(p) == passes[p].status = "running"
InLoop(p) == Running(p) /\ passes[p].ds <= Len(datasources)
LoopDone(p) == passes[p].ds = Len(datasources) + 1

\* A DSUpdater just constructed, one of its two methods being entered:
\* initialize_data by the application, or _update_data called as a timer
\* thread would call it.
DsInit ==
    /\ datasources \in DatasourceSets
    /\ \E kind \in {"initial", "update"} : passes = <<NewPass(kind, 0)>>
    /\ timers = <<>>
    /\ clock = 0
    /\ updates = <<>>

DsIdle ==
    /\ datasources = <<>>
    /\ passes = <<>>
    /\ timers = <<>>
    /\ clock = 0
    /\ updates = <<>>

\* Update with the tag bound late: every call carries the name of the last
\* registered datasource.
UpdateLastName(p) ==
    /\ InLoop(p)
    /\ passes[p].rec <= Len(PassData(p))
    /\ updates' = Append(updates, [ds_type |-> datasources[Len(datasources)].name,
                                   data |-> PassData(p)[passes[p].rec],
                                   pass |-> p])
    /\ passes' = [passes EXCEPT ![p].rec = @ + 1, ![p].made = @ + 1]
    /\ UNCHANGED <<refineVars, mrVars, datasources, timers, clock>>

\* for data in ds.get_...(): self.vector_store.update(ds_type, data)
Update(p) ==
    /\ InLoop(p)
    /\ passes[p].rec <= Len(PassData(p))
    /\ updates' = Append(updates, [ds_type |-> datasources[passes[p].ds].name,
                                   data |-> PassData(p)[passes[p].rec],
                                   pass |-> p])
    /\ passes' = [passes EXCEPT ![p].rec = @ + 1, ![p].made = @ + 1]
    /\ UNCHANGED <<refineVars, mrVars, datasources, timers, clock>>

\* The inner generator is exhausted: the outer for loop takes the next pair.
NextDatasource(p) ==
    /\ InLoop(p)
    /\ passes[p].rec = Len(PassData(p)) + 1
    /\ passes' = [passes EXCEPT ![p].ds = @ + 1, ![p].rec = 1]
    /\ UNCHANGED <<refineVars, mrVars, datasources, timers, clock, updates>>

\* Raise with a try/except around the loop body that notes the error and goes
\* on with the loop.
RaiseSwallowed(p, error) ==
    passes' = [passes EXCEPT ![p].error = error]

\* An exception leaves both for loops and the method: nothing catches it.
Raise(p, error) ==
    passes' = [passes EXCEPT ![p].status = "raised", ![p].error = error]

\* ds.get_...() or the generator's next() raises.
SourceFails(p) ==
    /\ InLoop(p)
    /\ Raise(p, "SourceError")
    /\ UNCHANGED <<refineVars, mrVars, datasources, timers, clock, updates>>

\* self.vector_store.update(ds_type, data) raises.
StoreFails(p) ==
    /\ InLoop(p)
    /\ passes[p].rec <= Len(PassData(p))
    /\ Raise(p, "StoreError")
    /\ UNCHANGED <<refineVars, mrVars, datasources, timers, clock, updates>>

\* threading.Timer(interval, function): the constructor of a thread that,
\* once start() is called on it, waits interval seconds and calls function.
\* The constructor does not start it.
ThreadingTimer(interval, p) ==
    [deadline |-> clock + interval, by |-> p, started |-> FALSE, fired |-> FALSE]

\* CreateTimer with the timer made, and started, as the first statement of the
\* method instead of its last.
CreateTimerFirst(p) ==
    /\ Running(p)
    /\ \/ /\ \A t \in 1..Len(timers) : timers[t].by # p
          /\ timers' = Append(timers, [ThreadingTimer(TIMER_INTERVAL, p)
                                         EXCEPT !.started = TRUE])
          /\ UNCHANGED passes
       \/ /\ \E t \in 1..Len(timers) : timers[t].by = p
          /\ LoopDone(p)
          /\ passes' = [passes EXCEPT ![p].status = "returned"]
          /\ UNCHANGED timers
    /\ UNCHANGED <<refineVars, mrVars, datasources, clock, updates>>

\* The line after the loops, the last one of both methods:
\* threading.Timer(TIMER_INTERVAL, self._update_data); then the method returns.
CreateTimer(p) ==
    /\ Running(p)
    /\ LoopDone(p)
    /\ timers' = Append(timers, ThreadingTimer(TIMER_INTERVAL, p))
    /\ passes' = [passes EXCEPT ![p].status = "returned"]
    /\ UNCHANGED <<refineVars, mrVars, datasources, clock, updates>>

\* The timers whose interval is over at time now: started, not yet run.
Due(now) ==
    {t \in 1..Len(timers) :
        timers[t].started /\ ~timers[t].fired /\ timers[t].deadline <= now}

RECURSIVE FirePasses(_, _)
\* One new call of self._update_data, on its own thread, per due timer.
FirePasses(due, now) ==
    IF due = {} THEN <<>>
    ELSE LET t == CHOOSE x \in due : \A y \in due : x <= y
         IN  <<NewPass("update", now)>> \o FirePasses(due \ {t}, now)

\* Time passes: one timer interval.  Every started timer whose interval is
\* over calls its function.
Tick ==
    /\ clock < MaxTicks * TIMER_INTERVAL
    /\ clock' = clock + TIMER_INTERVAL
    /\ passes' = passes \o FirePasses(Due(clock'), clock')
    /\ timers' = [t \in 1..Len(timers) |->
                    IF t \in Due(clock') THEN [timers[t] EXCEPT !.fired = TRUE]
                    ELSE timers[t]]
    /\ UNCHANGED <<refineVars, mrVars, datasources, updates>>

Next ==
    \/ \E p \in 1..Len(passes) : Update(p)
    \/ \E p \in 1..Len(passes) : NextDatasource(p)
    \/ \E p \in 1..Len(passes) : SourceFails(p)
    \/ \E p \in 1..Len(passes) : StoreFails(p)
    \/ \E p \in 1..Len(passes) : CreateTimer(p)
    \/ Tick

\* ------------------------------------------------------- DSUpdater: claims
ActivePasses == {p \in 1..Len(passes) : Running(p)}
UpdatesBy(p) == SelectSeq(updates, LAMBDA u : u.pass = p)

\* C1 (as claimed): once a pass (initialize_data or a refresh) has completed
\* and returned, the timer it made is armed, so that a refresh pass fires
\* when the interval is over.
C1_TimerArmedAfterPass ==
    \A p \in 1..Len(passes) :
        passes[p].status = "returned" =>
            \E t \in 1..Len(timers) :
                timers[t].by = p /\ (timers[t].started \/ timers[t].fired)

\* C2: at most one pass is in progress in every reachable state, and a timer
\* exists only for a pass that has iterated every datasource to completion.
C2_OnePassAtATime ==
    /\ Cardinality(ActivePasses) <= 1
    /\ \A t \in 1..Len(timers) : LoopDone(timers[t].by)

\* C2's case: initialize_data has returned, its timer exists and more than the
\* timer's interval has passed.
C2_Witness ==
    /\ Len(passes) >= 1
    /\ passes[1].kind = "initial"
    /\ passes[1].status = "returned"
    /\ Len(updates) >= 2
    /\ Len(timers) = 1
    /\ clock > timers[1].deadline

RECURSIVE ExpectedFrom(_, _, _)
\* The update calls of a full pass of the given kind from datasource i on:
\* datasources in registration order, records in the order yielded.
ExpectedFrom(kind, i, p) ==
    IF i > Len(datasources) THEN <<>>
    ELSE LET recs == IF kind = "initial" THEN datasources[i].initial
                     ELSE datasources[i].update
         IN  [k \in 1..Len(recs) |->
                [ds_type |-> datasources[i].name, data |-> recs[k], pass |-> p]]
             \o ExpectedFrom(kind, i + 1, p)

IsPrefix(s, t) == Len(s) <= Len(t) /\ SubSeq(t, 1, Len(s)) = s

\* C3: initialize_data's update calls are, at any moment, a prefix of the
\* records of the datasources in registration and yield order, each tagged
\* with its datasource's name; when it returns (no call failed) they are
\* exactly that sequence.
C3_InitialUpdatesInOrder ==
    (Len(passes) >= 1 /\ passes[1].kind = "initial") =>
        /\ IsPrefix(updates, ExpectedFrom("initial", 1, 1))
        /\ passes[1].status = "returned" => updates = ExpectedFrom("initial", 1, 1)

\* C3's case: initialize_data has returned after updates from two datasources
\* with different record counts.
C3_Witness ==
    /\ Len(passes) >= 1
    /\ passes[1].kind = "initial"
    /\ passes[1].status = "returned"
    /\ Len(datasources) = 2
    /\ Len(datasources[1].initial) = 2
    /\ Len(datasources[2].initial) = 1
    /\ Len(updates) = 3

\* C4: a pass in which a datasource or a store call failed has raised (the
\* failure reaches the caller), and from then on it makes no update call and
\* no timer; the update calls already made stay as they are.
C4_FailureStopsPass ==
    [][/\ IsPrefix(updates, updates')
       /\ \A p \in 1..Len(passes) :
            passes[p].error # NoError =>
                /\ passes[p].status = "raised"
                /\ passes'[p] = passes[p]
                /\ UpdatesBy(p)' = UpdatesBy(p)
                /\ \A t \in 1..Len(timers') : timers'[t].by # p]_vars

\* C4's case: a refresh pass whose store call failed after it had made an
\* update, with a datasource still to come.
C4_Witness ==
    \E p \in 1..Len(passes) :
        /\ passes[p].kind = "update"
        /\ passes[p].status = "raised"
        /\ passes[p].error = "StoreError"
        /\ passes[p].made >= 1
        /\ passes[p].ds < Len(datasources)
        /\ clock > 0

\* ============================================================== docs_refine
\* The page_content of the documents handed in.
DocContents == {"p", "q"}
\* What the language model (then StrOutputParser) may answer.
ModelOutputs == {"o1", "o2"}

Document(page_content) == [page_content |-> page_content]

\* partial_format_doc = format_document(doc, prompt="{page_content}"): the
\* template is the placeholder alone, so the text is the document's content.
partial_format_doc(doc) == <<doc.page_content>>

\* initial_chain's prompt: _initial_prompt with {context} filled in.
InitialPrompt(doc) ==
    [template |-> "initial", context |-> partial_format_doc(doc), prev_context |-> None]

\* refine_chain's prompt: _refine_prompt with {prev_context} and {context}.
RefinePrompt(param) ==
    [template |-> "refine",
     context |-> partial_format_doc(param.doc),
     prev_context |-> param.prev_context]

\* One model invocation as it is logged: the prompt and what came back.
Call(prompt, output) == [prompt |-> prompt, output |-> output]

\* docs[1:]
Rest(docs) == SubSeq(docs, 2, Len(docs))

RefineInit ==
    /\ rdocs \in SeqsUpTo({Document(c) : c \in DocContents}, MaxDocs)
    /\ rpc = "initial"
    /\ ridx = 1
    /\ context = None
    /\ rcalls = <<>>
    /\ rerror = NoError
    /\ rtrace = "open"

RefineIdle ==
    /\ rdocs = <<>>
    /\ rpc = "idle"
    /\ ridx = 1
    /\ context = None
    /\ rcalls = <<>>
    /\ rerror = NoError
    /\ rtrace = "none"

\* An exception inside the with block: trace_as_chain_group reports it to the
\* group unless the group has ended, and raises it again.
RefineRaise(error) ==
    /\ rpc' = "raised"
    /\ rerror' = error
    /\ rtrace' = IF rtrace = "ended" THEN rtrace ELSE "errored"

\* docs_refine on an empty list with a guard that hands back the empty
\* context instead of failing.
EmptyDocsReturnsNone ==
    /\ rpc = "initial"
    /\ Len(rdocs) = 0
    /\ rpc' = "returned"
    /\ rtrace' = "ended"
    /\ UNCHANGED <<rdocs, ridx, context, rcalls, rerror>>
    /\ UNCHANGED <<dsVars, mrVars>>

\* docs[0] of an empty list: IndexError, before initial_chain is invoked.
EmptyDocs ==
    /\ rpc = "initial"
    /\ Len(rdocs) = 0
    /\ RefineRaise("IndexError")
    /\ UNCHANGED <<rdocs, ridx, context, rcalls>>
    /\ UNCHANGED <<dsVars, mrVars>>

\* context = initial_chain.invoke(docs[0], ...)
InitialInvoke ==
    /\ rpc = "initial"
    /\ Len(rdocs) > 0
    /\ \E out \in ModelOutputs :
        /\ rcalls' = Append(rcalls, Call(InitialPrompt(rdocs[1]), out))
        /\ context' = out
    /\ rpc' = "loop"
    /\ UNCHANGED <<rdocs, ridx, rerror, rtrace>>
    /\ UNCHANGED <<dsVars, mrVars>>

\* initial_chain.invoke raises: the model invocation failed.
InitialFails ==
    /\ rpc = "initial"
    /\ Len(rdocs) > 0
    /\ rcalls' = Append(rcalls, Call(InitialPrompt(rdocs[1]), "raised"))
    /\ RefineRaise("ModelError")
    /\ UNCHANGED <<rdocs, ridx, context>>
    /\ UNCHANGED <<dsVars, mrVars>>

\* RefineInvoke with the result of refine_chain.invoke not assigned to context.
RefineInvokeNoAssign ==
    /\ rpc = "loop"
    /\ ridx <= Len(Rest(rdocs))
    /\ \E out \in ModelOutputs :
        /\ rcalls' = Append(rcalls,
                Call(RefinePrompt([prev_context |-> context, doc |-> Rest(rdocs)[ridx]]), out))
        /\ context' = context
    /\ ridx' = ridx + 1
    /\ rtrace' = "ended"
    /\ UNCHANGED <<rdocs, rpc, rerror>>
    /\ UNCHANGED <<dsVars, mrVars>>

\* One turn of: for doc in docs[1:]:
\*     context = refine_chain.invoke({"prev_context": context, "doc": doc}, ...)
\*     manager.on_chain_end({"output": context})
RefineInvoke ==
    /\ rpc = "loop"
    /\ ridx <= Len(Rest(rdocs))
    /\ \E out \in ModelOutputs :
        /\ rcalls' = Append(rcalls,
                Call(RefinePrompt([prev_context |-> context, doc |-> Rest(rdocs)[ridx]]), out))
        /\ context' = out
    /\ ridx' = ridx + 1
    /\ rtrace' = "ended"
    /\ UNCHANGED <<rdocs, rpc, rerror>>
    /\ UNCHANGED <<dsVars, mrVars>>

\* refine_chain.invoke raises: the model invocation failed.
RefineFails ==
    /\ rpc = "loop"
    /\ ridx <= Len(Rest(rdocs))
    /\ rcalls' = Append(rcalls,
            Call(RefinePrompt([prev_context |-> context, doc |-> Rest(rdocs)[ridx]]), "raised"))
    /\ RefineRaise("ModelError")
    /\ UNCHANGED <<rdocs, ridx, context>>
    /\ UNCHANGED <<dsVars, mrVars>>

\* The loop is over: the with block is left (the group ended if it has not
\* been) and context is returned.
RefineReturn ==
    /\ rpc = "loop"
    /\ ridx = Len(Rest(rdocs)) + 1
    /\ rpc' = "returned"
    /\ rtrace' = "ended"
    /\ UNCHANGED <<rdocs, ridx, context, rcalls, rerror>>
    /\ UNCHANGED <<dsVars, mrVars>>

RefineNext ==
    \/ EmptyDocs
    \/ InitialInvoke
    \/ InitialFails
    \/ RefineInvoke
    \/ RefineFails
    \/ RefineReturn

\* ----------------------------------------------------- docs_refine: claims

\* C5: the invocations made so far are, in document order, the initial
\* prompt on docs[0] alone and then the refine prompt on each next document
\* with the previous invocation's output as prev_context; when docs_refine
\* returns it has made exactly len(docs) of them and returns the last output.
C5_RefineSequence ==
    /\ Len(rcalls) <= Len(rdocs)
    /\ \A i \in 1..Len(rcalls) :
        rcalls[i].prompt =
            IF i = 1 THEN InitialPrompt(rdocs[1])
            ELSE RefinePrompt([prev_context |-> rcalls[i - 1].output, doc |-> rdocs[i]])
    /\ (rpc = "returned" /\ Len(rdocs) > 0) =>
        /\ Len(rcalls) = Len(rdocs)
        /\ context = rcalls[Len(rcalls)].output

\* C5's case: docs_refine has returned for three documents, the invocations
\* having answered differently.
C5_Witness ==
    /\ rpc = "returned"
    /\ Len(rdocs) = 3
    /\ Len(rcalls) = 3
    /\ rcalls[1].output # rcalls[2].output
    /\ rcalls[2].output # rcalls[3].output

\* C6: on an empty document list docs_refine makes no model invocation and
\* does not return; it ends by raising (docs[0]: IndexError).
C6_EmptyDocsRaises ==
    Len(rdocs) = 0 =>
        /\ rcalls = <<>>
        /\ rpc \in {"initial", "raised"}
        /\ rpc = "raised" => rerror = "IndexError"

\* C6's case: docs_refine was called with no document and has ended.
C6_Witness ==
    /\ Len(rdocs) = 0
    /\ rpc = "raised"
    /\ rtrace = "errored"

\* ========================================================== docs_map_reduce
\* collapse(docs, config, token_max=3072)
TOKEN_MAX == 3072
\* map_reduce.invoke(docs, config={"max_concurrency": 5})
MAX_CONCURRENCY == 5

\* The "\n\n" that format_docs joins the contents with.
Sep == "\n\n"
\* What the language model (then StrOutputParser) may answer: it becomes the
\* page_content of a mapped or collapsed document.
Summaries == {"a", "b"}

\* llm.get_num_tokens, an external capability: any count per summary (below,
\* at a half of, and above the budget) and per separator.
TokenCounters ==
    {f \in [Summaries \cup {Sep} -> {0, 1, 1024, 1536, 4096}] :
        /\ f[Sep] \in {0, 1}
        /\ \A x \in Summaries : f[x] >= 1024}

\* The caps the map phase is run under: the one docs_map_reduce passes and
\* two that bind with few documents.
Caps == {1, 2, MAX_CONCURRENCY}

RECURSIVE Join(_)
\* format_docs(docs) = "\n\n".join(partial_format_doc(doc) for doc in docs),
\* as the sequence of its pieces.
Join(docs) ==
    IF Len(docs) = 0 THEN <<>>
    ELSE IF Len(docs) = 1 THEN partial_format_doc(docs[1])
    ELSE partial_format_doc(docs[1]) \o <<Sep>> \o Join(Tail(docs))

format_docs(docs) == Join(docs)

RECURSIVE NumTokens(_)
\* llm.get_num_tokens(text)
NumTokens(text) ==
    IF Len(text) = 0 THEN 0 ELSE tokens[Head(text)] + NumTokens(Tail(text))

\* def get_num_tokens(docs): return llm.get_num_tokens(format_docs(docs))
get_num_tokens(docs) == NumTokens(format_docs(docs))

RECURSIVE SplitNoSingleCheck(_, _, _)
\* SplitFrom without the test for a single document over the budget: such a
\* document becomes a group of its own.
SplitNoSingleCheck(docs, result, sub) ==
    IF Len(docs) = 0 THEN Append(result, sub)
    ELSE LET sub1 == Append(sub, Head(docs))
         IN  IF get_num_tokens(sub1) > TOKEN_MAX
             THEN IF Len(sub1) = 1
                  THEN SplitNoSingleCheck(Tail(docs), Append(result, sub1), <<>>)
                  ELSE SplitNoSingleCheck(Tail(docs), Append(result, sub), <<Head(docs)>>)
             ELSE SplitNoSingleCheck(Tail(docs), result, sub1)

RECURSIVE SplitFrom(_, _, _)
\* The loop of langchain's split_list_of_docs(docs, length_func, token_max):
\* each document joins the current group; when the group then exceeds
\* token_max, the group without it is closed and it starts the next one,
\* unless it is alone in the group: then ValueError ("A single document was
\* longer than the context length, we cannot handle this.").
SplitFrom(docs, result, sub) ==
    IF Len(docs) = 0 THEN Append(result, sub)
    ELSE LET sub1 == Append(sub, Head(docs))
         IN  IF get_num_tokens(sub1) > TOKEN_MAX
             THEN IF Len(sub1) = 1 THEN "ValueError"
                  ELSE SplitFrom(Tail(docs), Append(result, sub), <<Head(docs)>>)
             ELSE SplitFrom(Tail(docs), result, sub1)

\* split_list_of_docs(docs, get_num_tokens, token_max)
split_list_of_docs(docs) == SplitFrom(docs, <<>>, <<>>)

NewTask == [state |-> "pending", output |-> None]
RunningTasks == {i \in 1..Len(task) : task[i].state = "running"}

MrInit ==
    /\ mdocs \in SeqsUpTo({Document(c) : c \in DocContents}, MaxDocs)
    /\ tokens \in TokenCounters
    /\ cap \in Caps
    /\ mpc = "map"
    /\ task = [i \in 1..Len(mdocs) |-> NewTask]
    /\ mapCalls = [i \in 1..Len(mdocs) |-> 0]
    /\ mapped = <<>>
    /\ collected = 0
    /\ cur = <<>>
    /\ groups = <<>>
    /\ gidx = 1
    /\ newdocs = <<>>
    /\ nCollapse = 0
    /\ nReduce = 0
    /\ reduceInput = None
    /\ mresult = None
    /\ merror = NoError
    /\ failedIn = "none"

MrIdle ==
    /\ mdocs = <<>>
    /\ tokens = <<>>
    /\ cap = 0
    /\ mpc = "idle"
    /\ task = <<>>
    /\ mapCalls = <<>>
    /\ mapped = <<>>
    /\ collected = 0
    /\ cur = <<>>
    /\ groups = <<>>
    /\ gidx = 1
    /\ newdocs = <<>>
    /\ nCollapse = 0
    /\ nReduce = 0
    /\ reduceInput = None
    /\ mresult = None
    /\ merror = NoError
    /\ failedIn = "none"

\* ---- map phase: map_as_doc_chain.map() under config max_concurrency ----

\* A worker of the batch's executor takes the next submitted input (they are
\* taken in input order) and invokes map_chain on it; at most cap run.
MapStart(i) ==
    /\ mpc \in {"map", "aborting"}
    /\ task[i].state = "pending"
    /\ \A j \in 1..(i - 1) : task[j].state # "pending"
    /\ Cardinality(RunningTasks) < cap
    /\ task' = [task EXCEPT ![i].state = "running"]
    /\ mapCalls' = [mapCalls EXCEPT ![i] = @ + 1]
    /\ UNCHANGED <<mdocs, tokens, cap, mpc, mapped, collected, cur, groups, gidx, newdocs,
                   nCollapse, nReduce, reduceInput, mresult, merror, failedIn>>
    /\ UNCHANGED <<dsVars, refineVars>>

\* The model answers the map prompt of input i.
MapDone(i) ==
    /\ mpc \in {"map", "aborting"}
    /\ task[i].state = "running"
    /\ \E out \in Summaries : task' = [task EXCEPT ![i] = [state |-> "done", output |-> out]]
    /\ UNCHANGED <<mdocs, tokens, cap, mpc, mapCalls, mapped, collected, cur, groups, gidx,
                   newdocs, nCollapse, nReduce, reduceInput, mresult, merror, failedIn>>
    /\ UNCHANGED <<dsVars, refineVars>>

\* The model invocation of input i raises.
MapFails(i) ==
    /\ mpc \in {"map", "aborting"}
    /\ task[i].state = "running"
    /\ task' = [task EXCEPT ![i].state = "failed"]
    /\ failedIn' = "map"
    /\ UNCHANGED <<mdocs, tokens, cap, mpc, mapCalls, mapped, collected, cur, groups, gidx,
                   newdocs, nCollapse, nReduce, reduceInput, mresult, merror>>
    /\ UNCHANGED <<dsVars, refineVars>>

\* MapCollect taking the results in the order the calls completed.
MapCollectAsCompleted ==
    /\ mpc = "map"
    /\ \E i \in 1..Len(task) :
        /\ task[i].state = "done"
        /\ task' = [task EXCEPT ![i].state = "taken"]
        /\ mapped' = Append(mapped, Document(task[i].output))
    /\ collected' = collected + 1
    /\ UNCHANGED <<mdocs, tokens, cap, mpc, mapCalls, cur, groups, gidx, newdocs,
                   nCollapse, nReduce, reduceInput, mresult, merror, failedIn>>
    /\ UNCHANGED <<dsVars, refineVars>>

\* The batch takes the next result, in input order, and wraps it:
\* Document(page_content=param['content']).
MapCollect ==
    /\ mpc = "map"
    /\ collected < Len(task)
    /\ task[collected + 1].state = "done"
    /\ task' = [task EXCEPT ![collected + 1].state = "taken"]
    /\ mapped' = Append(mapped, Document(task[collected + 1].output))
    /\ collected' = collected + 1
    /\ UNCHANGED <<mdocs, tokens, cap, mpc, mapCalls, cur, groups, gidx, newdocs,
                   nCollapse, nReduce, reduceInput, mresult, merror, failedIn>>
    /\ UNCHANGED <<dsVars, refineVars>>

\* The next result, in input order, is an exception: the batch raises it; the
\* inputs no worker has taken yet are cancelled.
MapCollectFailure ==
    /\ mpc = "map"
    /\ collected < Len(task)
    /\ task[collected + 1].state = "failed"
    /\ task' = [i \in 1..Len(task) |->
                    IF task[i].state = "pending" THEN [task[i] EXCEPT !.state = "cancelled"]
                    ELSE task[i]]
    /\ mpc' = "aborting"
    /\ UNCHANGED <<mdocs, tokens, cap, mapCalls, mapped, collected, cur, groups, gidx,
                   newdocs, nCollapse, nReduce, reduceInput, mresult, merror, failedIn>>
    /\ UNCHANGED <<dsVars, refineVars>>

\* The executor has shut down (the calls still running have ended): the
\* exception leaves map_reduce.invoke and docs_map_reduce.
MapAbort ==
    /\ mpc = "aborting"
    /\ RunningTasks = {}
    /\ mpc' = "raised"
    /\ merror' = "ModelError"
    /\ UNCHANGED <<mdocs, tokens, cap, task, mapCalls, mapped, collected, cur, groups, gidx,
                   newdocs, nCollapse, nReduce, reduceInput, mresult, failedIn>>
    /\ UNCHANGED <<dsVars, refineVars>>

\* Every input's result is taken: the list of mapped documents goes to collapse.
MapFinish ==
    /\ mpc = "map"
    /\ collected = Len(mdocs)
    /\ mpc' = "collapse"
    /\ cur' = mapped
    /\ UNCHANGED <<mdocs, tokens, cap, task, mapCalls, mapped, collected, groups, gidx,
                   newdocs, nCollapse, nReduce, reduceInput, mresult, merror, failedIn>>
    /\ UNCHANGED <<dsVars, refineVars>>

\* ---- collapse phase: collapse(docs, config) ----

\* CollapseReturn with an if in place of the while: one collapse pass at most.
CollapseReturnAfterOnePass ==
    /\ mpc = "collapse"
    /\ (nCollapse > 0 \/ ~(get_num_tokens(cur) > TOKEN_MAX))
    /\ mpc' = "reduce"
    /\ UNCHANGED <<mdocs, tokens, cap, task, mapCalls, mapped, collected, cur, groups, gidx,
                   newdocs, nCollapse, nReduce, reduceInput, mresult, merror, failedIn>>
    /\ UNCHANGED <<dsVars, refineVars>>

\* while get_num_tokens(docs) > token_max: false; return docs.
CollapseReturn ==
    /\ mpc = "collapse"
    /\ ~(get_num_tokens(cur) > TOKEN_MAX)
    /\ mpc' = "reduce"
    /\ UNCHANGED <<mdocs, tokens, cap, task, mapCalls, mapped, collected, cur, groups, gidx,
                   newdocs, nCollapse, nReduce, reduceInput, mresult, merror, failedIn>>
    /\ UNCHANGED <<dsVars, refineVars>>

\* The while test is true: split_docs = split_list_of_docs(docs, ...).
CollapseSplit ==
    /\ mpc = "collapse"
    /\ get_num_tokens(cur) > TOKEN_MAX
    /\ split_list_of_docs(cur) # "ValueError"
    /\ groups' = split_list_of_docs(cur)
    /\ gidx' = 1
    /\ newdocs' = <<>>
    /\ mpc' = "collapsing"
    /\ UNCHANGED <<mdocs, tokens, cap, task, mapCalls, mapped, collected, cur,
                   nCollapse, nReduce, reduceInput, mresult, merror, failedIn>>
    /\ UNCHANGED <<dsVars, refineVars>>

\* The while test is true and split_list_of_docs raises ValueError.
CollapseSplitFails ==
    /\ mpc = "collapse"
    /\ get_num_tokens(cur) > TOKEN_MAX
    /\ split_list_of_docs(cur) = "ValueError"
    /\ mpc' = "raised"
    /\ merror' = "ValueError"
    /\ UNCHANGED <<mdocs, tokens, cap, task, mapCalls, mapped, collected, cur, groups, gidx,
                   newdocs, nCollapse, nReduce, reduceInput, mresult, failedIn>>
    /\ UNCHANGED <<dsVars, refineVars>>

\* One element of [collapse_docs(_docs, invoke) for _docs in split_docs]: the
\* model is invoked on the group's joined contents and its answer is the new
\* document; after the last group the list replaces docs and the while test
\* is made again.
CollapseInvoke ==
    /\ mpc = "collapsing"
    /\ gidx <= Len(groups)
    /\ nCollapse < MaxCollapse
    /\ nCollapse' = nCollapse + 1
    /\ \E out \in Summaries :
        LET built == Append(newdocs, Document(out))
        IN  IF gidx = Len(groups)
            THEN /\ cur' = built
                 /\ newdocs' = <<>>
                 /\ groups' = <<>>
                 /\ gidx' = 1
                 /\ mpc' = "collapse"
            ELSE /\ newdocs' = built
                 /\ gidx' = gidx + 1
                 /\ UNCHANGED <<cur, groups, mpc>>
    /\ UNCHANGED <<mdocs, tokens, cap, task, mapCalls, mapped, collected,
                   nReduce, reduceInput, mresult, merror, failedIn>>
    /\ UNCHANGED <<dsVars, refineVars>>

\* CollapseFails with the failed invocation caught and the group tried again.
CollapseFailsRetried ==
    /\ mpc = "collapsing"
    /\ gidx <= Len(groups)
    /\ nCollapse < MaxCollapse
    /\ nCollapse' = nCollapse + 1
    /\ failedIn' = "collapse"
    /\ UNCHANGED <<mdocs, tokens, cap, mpc, task, mapCalls, mapped, collected, cur, groups,
                   gidx, newdocs, nReduce, reduceInput, mresult, merror>>
    /\ UNCHANGED <<dsVars, refineVars>>

\* The model invocation of collapse_chain raises.
CollapseFails ==
    /\ mpc = "collapsing"
    /\ gidx <= Len(groups)
    /\ nCollapse < MaxCollapse
    /\ nCollapse' = nCollapse + 1
    /\ failedIn' = "collapse"
    /\ mpc' = "raised"
    /\ merror' = "ModelError"
    /\ UNCHANGED <<mdocs, tokens, cap, task, mapCalls, mapped, collected, cur, groups,
                   gidx, newdocs, nReduce, reduceInput, mresult>>
    /\ UNCHANGED <<dsVars, refineVars>>

\* ---- reduce phase: reduce_chain ----

\* reduce_chain invokes the model once on the joined contents of the list
\* collapse returned; its answer is what docs_map_reduce returns.
ReduceInvoke ==
    /\ mpc = "reduce"
    /\ nReduce' = nReduce + 1
    /\ reduceInput' = cur
    /\ \E out \in Summaries : mresult' = out
    /\ mpc' = "returned"
    /\ UNCHANGED <<mdocs, tokens, cap, task, mapCalls, mapped, collected, cur, groups, gidx,
                   newdocs, nCollapse, merror, failedIn>>
    /\ UNCHANGED <<dsVars, refineVars>>

\* The model invocation of reduce_chain raises.
ReduceFails ==
    /\ mpc = "reduce"
    /\ nReduce' = nReduce + 1
    /\ reduceInput' = cur
    /\ failedIn' = "reduce"
    /\ mpc' = "raised"
    /\ merror' = "ModelError"
    /\ UNCHANGED <<mdocs, tokens, cap, task, mapCalls, mapped, collected, cur, groups, gidx,
                   newdocs, nCollapse, mresult>>
    /\ UNCHANGED <<dsVars, refineVars>>

MapReduceNext ==
    \/ \E i \in 1..Len(task) : MapStart(i)
    \/ \E i \in 1..Len(task) : MapDone(i)
    \/ \E i \in 1..Len(task) : MapFails(i)
    \/ MapCollect
    \/ MapCollectFailure
    \/ MapAbort
    \/ MapFinish
    \/ CollapseReturn
    \/ CollapseSplit
    \/ CollapseSplitFails
    \/ CollapseInvoke
    \/ CollapseFails
    \/ ReduceInvoke
    \/ ReduceFails

\* ------------------------------------------------- docs_map_reduce: claims
PastMap == mpc \in {"collapse", "collapsing", "reduce", "returned"} \/ merror = "ValueError"

\* C7: under any cap and any order of completion, map_chain invokes the model
\* at most once per input document, never more than cap at a time, and the
\* results taken so far are the map outputs of the first inputs, in input
\* order; the list handed to collapse has one mapped document per input
\* document, each input's model having been invoked exactly once.
C7_MapOncePerDocInOrder ==
    /\ \A i \in 1..Len(mdocs) : mapCalls[i] <= 1
    /\ Cardinality(RunningTasks) <= cap
    /\ Len(mapped) = collected
    /\ \A i \in 1..Len(mapped) : mapped[i] = Document(task[i].output)
    /\ PastMap =>
        /\ Len(mapped) = Len(mdocs)
        /\ \A i \in 1..Len(mdocs) : mapCalls[i] = 1 /\ task[i].output \in Summaries

\* C7's case: three inputs mapped under a cap of 2, the third call having
\* completed while the first was still running, with different outputs.
C7_Witness ==
    /\ cap = 2
    /\ Len(mdocs) = 3
    /\ mpc = "map"
    /\ task[1].state = "running"
    /\ task[2].state = "done"
    /\ task[3].state = "done"
    /\ task[2].output # task[3].output

\* C8: the document list collapse hands to reduce_chain has a token count
\* (contents joined by a blank line) of at most the budget, or is a single
\* document that alone exceeds the budget.
C8_CollapseWithinBudget ==
    LET ok(docs) ==
            \/ NumTokens(Join(docs)) <= TOKEN_MAX
            \/ Len(docs) = 1 /\ tokens[docs[1].page_content] > TOKEN_MAX
    IN  /\ mpc = "reduce" => ok(cur)
        /\ reduceInput # None => ok(reduceInput)

\* C8's case: the mapped documents were over the budget, two collapse passes
\* were made and reduce_chain was handed two documents.
C8_Witness ==
    /\ mpc = "returned"
    /\ NumTokens(Join(mapped)) > TOKEN_MAX
    /\ nCollapse >= 3
    /\ Len(reduceInput) = 2
    /\ reduceInput # mapped

\* The list entering the collapse phase is a single document whose own token
\* count exceeds the budget.
SingleOversize ==
    /\ PastMap \/ (mpc = "raised" /\ failedIn # "map")
    /\ Len(mapped) = 1
    /\ tokens[mapped[1].page_content] > TOKEN_MAX

\* C9 (as claimed): a single document over the budget is passed through the
\* collapse phase unchanged, without an error, and reduce_chain is invoked
\* once on it.
C9_SingleOversizePassesThrough ==
    (SingleOversize /\ mpc \in {"returned", "raised"} /\ failedIn = "none") =>
        /\ mpc = "returned"
        /\ nCollapse = 0
        /\ nReduce = 1
        /\ reduceInput = mapped

\* C9 (amended): on a single document over the budget the collapse phase ends
\* in one step, with split_list_of_docs's ValueError: no collapse_chain and no
\* reduce_chain invocation is made and nothing is returned.
C9_SingleOversizeRaises ==
    SingleOversize =>
        /\ nCollapse = 0
        /\ nReduce = 0
        /\ mresult = None
        /\ \/ /\ mpc = "collapse"
              /\ ENABLED CollapseSplitFails
              /\ ~ENABLED CollapseSplit
              /\ ~ENABLED CollapseReturn
           \/ /\ mpc = "raised"
              /\ merror = "ValueError"

\* C9's case: docs_map_reduce has ended on a single mapped document over the
\* budget.
C9_Witness ==
    /\ SingleOversize
    /\ mpc = "raised"
    /\ Len(mdocs) = 1
    /\ task[1].state = "taken"

\* C10: once a map, collapse or reduce model invocation has failed, no
\* collapse or reduce invocation is started, the failed map call is not
\* invoked again, nothing is returned, and docs_map_reduce ends by raising.
C10_FailureAborts ==
    [][failedIn' # "none" =>
        /\ mresult' = None
        /\ mpc' \in {"map", "aborting", "raised"}
        /\ mpc' = "raised" => merror' = "ModelError"
        /\ failedIn' # "map" => mpc' = "raised"
        /\ failedIn # "none" =>
            /\ failedIn' = failedIn
            /\ nCollapse' = nCollapse
            /\ nReduce' = nReduce
            /\ \A i \in 1..Len(task) :
                task[i].state = "failed" => (task'[i] = task[i] /\ mapCalls'[i] = mapCalls[i])]_vars

\* C10's case: a collapse invocation failed in the second collapse pass and
\* docs_map_reduce has raised.
C10_Witness ==
    /\ failedIn = "collapse"
    /\ mpc = "raised"
    /\ cur # mapped
    /\ nCollapse >= 3
    /\ nReduce = 0

\* ============================================================ specifications
Init == DsInit /\ RefineIdle /\ MrIdle
Spec == Init /\ [][Next]_vars

RefineSpecInit == DsIdle /\ RefineInit /\ MrIdle
RefineSpec == RefineSpecInit /\ [][RefineNext]_vars

MapReduceSpecInit == DsIdle /\ RefineIdle /\ MrInit
MapReduceSpec == MapReduceSpecInit /\ [][MapReduceNext]_vars

====
